---- MODULE Spec2Model ----
(***************************************************************************)
(* Hand tracker: the dual-rate pipeline of js/tracking.js (detection loop  *)
(* and render loop), js/smoothing.js, js/recording.js and js/main.js.      *)
(*                                                                         *)
(* Time is counted in units of 1/240 s, so that the 240 Hz and 60 Hz       *)
(* display periods, the capture interval 1000/30 ms (8 units), the 100 ms  *)
(* recorder poll (24 units) and the inference periods 1000/fps ms for the  *)
(* rates used here are whole numbers.  Timers fire at the instant they are *)
(* due (the clock does not pass a due timer); callbacks due at the same    *)
(* instant run in any order.  Coordinates are counted in units of 1e-7,    *)
(* detector coordinates in units of 1e-3; the arithmetic of smoothing.js   *)
(* is floating-point arithmetic with a mantissa of MantissaBits bits,      *)
(* rounding to nearest, ties to even, after every operation.               *)
(***************************************************************************)
EXTENDS Integers, Sequences, FiniteSets, TLC

VARIABLES
  now,          \* performance.now(), in units of 1/240 s
  horizon,      \* last instant explored
  renderPeriod, \* display refresh period (1 = 240 Hz, 4 = 60 Hz)
  pc,           \* position of main.js init(): "warmup", "settings", "mp", "render", "live"
  budget,       \* user inputs (clicks, slider moves, source changes) still to come
  videoReady,   \* DOM.video.readyState >= 2
  op,           \* the handler that ran last
  running,      \* tracking.js _running
  timeoutH,     \* tracking.js _timeout (0 = null)
  timers,       \* pending setTimeout(runInference) timers: [id, due]
  nextTimerId,  \* next handle setTimeout / setInterval returns
  inflight,     \* outstanding _hands.send calls: [id, sentAt, delivered, warm]
  nextSendId,
  smooth,       \* opts.smooth, in hundredths
  mpFPS,        \* opts.mpFPS
  detected,     \* state.detected
  firstFrame,   \* state.firstFrame
  isRecording,  \* state.isRecording
  rawBuf,       \* smoothing.js rawBuf: 0..NJ*3-1 -> coordinate
  smoothPos,    \* smoothing.js smoothPos: 0..NJ-1 -> [x, y, z]
  recFrames,    \* recording.js recFrames: sequence of [t, lm]
  recStart,     \* recording.js _recStart
  recDur,       \* recording.js _recDur (seconds, 0 = unlimited)
  recTimer,     \* recording.js _recTimer (0 = null)
  intervals,    \* active setInterval(_tickUI) timers: [id, due]
  lastCap,      \* recording.js _lastCap
  expVisible,   \* export button has class 'visible'
  rst,          \* text of the recorder status element
  rafDue,       \* instant of the pending requestAnimationFrame(loop), -1 = none
  ticks,        \* number of calls of loop so far
  rigVisible,   \* jointMesh.visible (boneMesh and glowMesh are set with it)
  fresh,        \* history: state.detected became true and no smoothing step ran since
  acq,          \* history: number of times state.detected went from false to true
  stoppedBy,    \* history: what stopped the last session ("none" while it runs)
  smooth0,      \* history: smoothPos in the initial state
  modalVisible, \* export.js: the export dialog has class 'visible'
  zips          \* export.js downloadZip: archives being generated, and delivered

envVars   == <<now, horizon, renderPeriod, smooth0, pc, budget, videoReady, op>>
trackVars == <<running, timeoutH, timers, nextTimerId, inflight, nextSendId>>
optVars   == <<smooth, mpFPS>>
flagVars  == <<detected, firstFrame, fresh, acq>>
bufVars   == <<rawBuf, smoothPos>>
recVars   == <<isRecording, recFrames, recStart, recDur, recTimer, intervals,
               lastCap, expVisible, rst, stoppedBy>>
drawVars  == <<rafDue, ticks, rigVisible>>
expVars   == <<modalVisible, zips>>
vars      == <<envVars, trackVars, optVars, flagVars, bufVars, recVars, drawVars,
               expVars>>

----------------------------------------------------------------------------
(* Program constants *)

NJ == 21

\* CAP_INTERVAL_MS = 1000 / MAX_CAPTURE_FPS, MAX_CAPTURE_FPS = 30
MAX_CAPTURE_FPS == 30

\* the clock's resolution: 8 units to a capture interval, 240 to a second
UnitsPerSec == 8 * MAX_CAPTURE_FPS
Ms(ms) == (ms * UnitsPerSec) \div 1000

CAP_INTERVAL == UnitsPerSec \div MAX_CAPTURE_FPS

\* setInterval(_tickUI, 100)
PollInterval == Ms(100)

\* the two `await delay(150)` of init() precede the loops
BootTime == Ms(150) + Ms(150)

\* opts.scale = 1.20 and the depth factor 0.8 of onResults, in 1e-4
Scale == 12000
DepthScale == 8000

\* let _recDur = 5
DefaultDur == 5

\* opts.smooth = 0.18 (in hundredths), opts.mpFPS = 20
DefaultSmooth == 18
DefaultFPS == 20

\* a 60 Hz display: 4 units between refreshes
RefreshPeriod == UnitsPerSec \div 60

----------------------------------------------------------------------------
(* Bounds of the model *)

\* instants explored after the loops start, in the general specification
Horizon == 24
\* user inputs in one run
MaxUserEvents == 1
\* bits of the mantissa of the model's floating-point numbers (a double has
\* 53; rawBuf's values, like the elements of a Float32Array, are exact)
MantissaBits == 20
\* how long after the loops' start the user may start the session of the
\* steady-tracking specifications
StartWindow == 16

\* values the settings sliders deliver
AlphaChoices == {18, 100}
FpsChoices == {10, 20}
\* data-sec of the duration buttons (README: 5s / 10s / 15s / 30s / unlimited)
DurChoices == {0, 5}

\* detector results with a hand: two poses
Poses == {1, 2}
Results == {0} \cup Poses

----------------------------------------------------------------------------
(* Numbers *)

Abs(n) == IF n < 0 THEN -n ELSE n

\* n / d rounded to the nearest integer, halves away from zero
RoundDiv(n, d) == IF n >= 0 THEN (2 * n + d) \div (2 * d)
                  ELSE -((2 * (-n) + d) \div (2 * d))

\* setTimeout delay 1000 / opts.mpFPS ms, in units of 1/240 s
Period(fps) == UnitsPerSec \div fps

\* +((now - _recStart) / 1000).toFixed(4): elapsed units -> seconds in 1e-4
ToFixed4(e) == RoundDiv(e * 10000, UnitsPerSec)

\* +p.x.toFixed(5): a coordinate in 1e-7 -> the coordinate in 1e-5
ToFixed5(v) == RoundDiv(v, 100)

\* n / d rounded to the nearest multiple of u, ties to the even multiple
RoundEven[n \in Int, d \in Nat, u \in Nat] ==
  LET q == n \div (d * u)
      r == n % (d * u)
  IN  IF 2 * r > d * u \/ (2 * r = d * u /\ q % 2 = 1) THEN (q + 1) * u ELSE q * u

\* the spacing of the floating-point numbers at magnitude a: the least power
\* of two u with a < u * 2^MantissaBits (magnitudes stay below 2^25 here)
Ulp[a \in Nat] ==
  LET m == 2^MantissaBits
  IN  IF a < m THEN 1
      ELSE IF a < 2 * m THEN 2
      ELSE IF a < 4 * m THEN 4
      ELSE IF a < 8 * m THEN 8
      ELSE IF a < 16 * m THEN 16
      ELSE 32

\* the floating-point number nearest to n / d
FlQ[n \in Int, d \in Nat] == RoundEven[n, d, Ulp[Abs(n) \div d]]
Fl(v) == FlQ[v, 1]

----------------------------------------------------------------------------
(* The detector's results: pose p gives the 21 normalized landmarks, x and *)
(* y in 0..1000 (1e-3), z in -100..100 (1e-3).                             *)

Landmark(p, i) ==
  [x |-> (137 * i + 311 * p) % 1001,
   y |-> (59 * i + 523 * p + 200) % 1001,
   z |-> ((17 * i + 40 * p) % 201) - 100]

\* onResults' coordinate transform of one landmark into rawBuf slots b..b+2
RawX(lm) == -((lm.x - 500) * Scale)
RawY(lm) == -((lm.y - 500) * Scale)
RawZ(lm) == -(lm.z * DepthScale)

RawOf(p) ==
  [k \in 0..(NJ * 3 - 1) |->
     LET lm == Landmark(p, k \div 3)
     IN  CASE k % 3 = 0 -> RawX(lm)
           [] k % 3 = 1 -> RawY(lm)
           [] OTHER     -> RawZ(lm)]

----------------------------------------------------------------------------
(* smoothing.js *)

\* variant: the step moves half as far as alpha asks
LerpHalf(s, r, alpha) == FlQ[s + FlQ[FlQ[r - s, 1] * alpha, 200], 1]

\* s += (r - s) * alpha, alpha in hundredths: a subtraction, a product and
\* a sum, each rounded
Lerp(s, r, alpha) == FlQ[s + FlQ[FlQ[r - s, 1] * alpha, 100], 1]

\* variant: every axis of a point follows the point's x coordinate of rawBuf
SmoothPointOneAxis(i, alpha) ==
  LET b == i * 3
  IN  IF ~firstFrame
      THEN [x |-> rawBuf[b], y |-> rawBuf[b + 1], z |-> rawBuf[b + 2]]
      ELSE [x |-> Lerp(smoothPos[i].x, rawBuf[b], alpha),
            y |-> Lerp(smoothPos[i].y, rawBuf[b], alpha),
            z |-> Lerp(smoothPos[i].z, rawBuf[b], alpha)]

\* variant: the step interpolates even on the first frame
SmoothPointAlwaysLerp(i, alpha) ==
  LET b == i * 3
  IN  [x |-> Lerp(smoothPos[i].x, rawBuf[b], alpha),
       y |-> Lerp(smoothPos[i].y, rawBuf[b + 1], alpha),
       z |-> Lerp(smoothPos[i].z, rawBuf[b + 2], alpha)]

\* the body of applySmoothing's loop for point i
SmoothPoint(i, alpha) ==
  LET b == i * 3
  IN  IF ~firstFrame
      THEN [x |-> rawBuf[b], y |-> rawBuf[b + 1], z |-> rawBuf[b + 2]]
      ELSE [x |-> Lerp(smoothPos[i].x, rawBuf[b], alpha),
            y |-> Lerp(smoothPos[i].y, rawBuf[b + 1], alpha),
            z |-> Lerp(smoothPos[i].z, rawBuf[b + 2], alpha)]

applySmoothing(alpha) ==
  /\ smoothPos' = [i \in 0..(NJ - 1) |-> SmoothPoint(i, alpha)]
  /\ firstFrame' = TRUE

\* variant: map in place of flatMap, one entry for each point
FlatLmPoints(sp) ==
  [k \in 0..(NJ - 1) |->
     <<ToFixed5(sp[k].x), ToFixed5(sp[k].y), ToFixed5(sp[k].z)>>]

\* smoothPos.flatMap(p => [+p.x.toFixed(5), +p.y.toFixed(5), +p.z.toFixed(5)])
FlatLm(sp) ==
  [k \in 0..(NJ * 3 - 1) |->
     CASE k % 3 = 0 -> ToFixed5(sp[k \div 3].x)
       [] k % 3 = 1 -> ToFixed5(sp[k \div 3].y)
       [] OTHER     -> ToFixed5(sp[k \div 3].z)]


----------------------------------------------------------------------------
(* Initial state: the modules are loaded, the camera is on, initTracking   *)
(* has registered onResults and issued its warm-up send.                   *)

ZeroRaw == [k \in 0..(NJ * 3 - 1) |-> 0]
ZeroPos == [i \in 0..(NJ - 1) |-> [x |-> 0, y |-> 0, z |-> 0]]

InitCommon ==
  /\ now = BootTime
  /\ pc = "warmup"
  /\ videoReady = TRUE
  /\ op = "load"
  /\ running = FALSE
  /\ timeoutH = 0
  /\ timers = {}
  /\ nextTimerId = 1
  /\ inflight = {[id |-> 0, sentAt |-> BootTime, delivered |-> FALSE, warm |-> TRUE]}
  /\ nextSendId = 1
  /\ smooth = DefaultSmooth
  /\ mpFPS = DefaultFPS
  /\ detected = FALSE
  /\ firstFrame = FALSE
  /\ isRecording = FALSE
  /\ rawBuf = ZeroRaw
  /\ smoothPos = ZeroPos
  /\ smooth0 = ZeroPos
  /\ modalVisible = FALSE
  /\ zips = [pending |-> 0, done |-> 0]
  /\ recFrames = <<>>
  /\ recStart = 0
  /\ recDur = DefaultDur
  /\ recTimer = 0
  /\ intervals = {}
  /\ lastCap = 0
  /\ expVisible = FALSE
  /\ rst = "INIT"
  /\ rafDue = -1
  /\ ticks = 0
  /\ rigVisible = FALSE
  /\ fresh = FALSE
  /\ acq = 0
  /\ stoppedBy = "none"

Init ==
  /\ InitCommon
  /\ horizon = BootTime + Horizon
  /\ renderPeriod = RefreshPeriod
  /\ budget = MaxUserEvents

----------------------------------------------------------------------------
(* recording.js: stopRec, startRec, captureFrame as effects on the         *)
(* recorder's variables.  ivs is the set of running interval timers at the *)
(* point of the call, cause names the caller.                              *)

\* variant: stopRec without its `if (!state.isRecording) return`
stopRecNoGuard(ivs, cause) ==
  /\ isRecording' = FALSE
  /\ intervals' = {iv \in ivs : iv.id # recTimer}
  /\ rst' = "DONE"
  /\ stoppedBy' = cause
  /\ expVisible' = IF Len(recFrames) > 0 THEN TRUE ELSE expVisible
  /\ UNCHANGED <<recFrames, recStart, recDur, recTimer, lastCap>>

\* variant: stopRec without its clearInterval
stopRecLeaksPoll(ivs, cause) ==
  IF ~isRecording
  THEN /\ intervals' = ivs
       /\ UNCHANGED <<isRecording, recFrames, recStart, recDur, recTimer,
                      lastCap, expVisible, rst, stoppedBy>>
  ELSE /\ isRecording' = FALSE
       /\ intervals' = ivs
       /\ rst' = "DONE"
       /\ stoppedBy' = cause
       /\ expVisible' = IF Len(recFrames) > 0 THEN TRUE ELSE expVisible
       /\ UNCHANGED <<recFrames, recStart, recDur, recTimer, lastCap>>

\* variant: stopRec offers the export whether or not a frame was captured
stopRecAlwaysOffers(ivs, cause) ==
  IF ~isRecording
  THEN /\ intervals' = ivs
       /\ UNCHANGED <<isRecording, recFrames, recStart, recDur, recTimer,
                      lastCap, expVisible, rst, stoppedBy>>
  ELSE /\ isRecording' = FALSE
       /\ intervals' = {iv \in ivs : iv.id # recTimer}
       /\ rst' = "DONE"
       /\ stoppedBy' = cause
       /\ expVisible' = TRUE
       /\ UNCHANGED <<recFrames, recStart, recDur, recTimer, lastCap>>

stopRec(ivs, cause) ==
  IF ~isRecording
  THEN /\ intervals' = ivs
       /\ UNCHANGED <<isRecording, recFrames, recStart, recDur, recTimer,
                      lastCap, expVisible, rst, stoppedBy>>
  ELSE /\ isRecording' = FALSE
       /\ intervals' = {iv \in ivs : iv.id # recTimer}
       /\ rst' = "DONE"
       /\ stoppedBy' = cause
       /\ expVisible' = IF Len(recFrames) > 0 THEN TRUE ELSE expVisible
       /\ UNCHANGED <<recFrames, recStart, recDur, recTimer, lastCap>>

\* variant: startRec keeps the frames of the session before
startRecKeepsFrames ==
  /\ recStart' = now
  /\ lastCap' = 0
  /\ isRecording' = TRUE
  /\ rst' = "REC"
  /\ expVisible' = FALSE
  /\ recTimer' = nextTimerId
  /\ intervals' = intervals \cup {[id |-> nextTimerId, due |-> now + PollInterval]}
  /\ nextTimerId' = nextTimerId + 1
  /\ stoppedBy' = "none"
  /\ UNCHANGED <<recDur, recFrames>>

startRec ==
  /\ recFrames' = <<>>
  /\ recStart' = now
  /\ lastCap' = 0
  /\ isRecording' = TRUE
  /\ rst' = "REC"
  /\ expVisible' = FALSE
  /\ recTimer' = nextTimerId
  /\ intervals' = intervals \cup {[id |-> nextTimerId, due |-> now + PollInterval]}
  /\ nextTimerId' = nextTimerId + 1
  /\ stoppedBy' = "none"
  /\ UNCHANGED recDur

\* variant: the guard lets through twice the rate
CaptureTooSoonAtSixty(t, last) == 2 * (t - last) < CAP_INTERVAL

\* variant: captureFrame without its rate guard
CaptureNeverTooSoon(t, last) == FALSE

\* the capture-rate guard of captureFrame: the call returns early
CaptureTooSoon(t, last) == t - last < CAP_INTERVAL

\* sp is smoothPos at the point of the call
captureFrame(sp) ==
  IF CaptureTooSoon(now, lastCap)
  THEN UNCHANGED <<lastCap, recFrames>>
  ELSE /\ lastCap' = now
       /\ recFrames' = Append(recFrames,
                              [t |-> ToFixed4(now - recStart), lm |-> FlatLm(sp)])

----------------------------------------------------------------------------
(* tracking.js *)

\* schedule(), given the pending timers tms and the current opts.mpFPS
schedule(tms, fps) ==
  /\ timers' = tms \cup {[id |-> nextTimerId, due |-> now + Period(fps)]}
  /\ timeoutH' = nextTimerId
  /\ nextTimerId' = nextTimerId + 1

\* variant: onResults gives way after the first ten points, state.detected
\* already set
onResultsTorn(res) ==
  IF res \in Poses
  THEN /\ rawBuf' = [k \in 0..(NJ * 3 - 1) |->
                       IF k < 30 THEN RawOf(res)[k] ELSE rawBuf[k]]
       /\ detected' = TRUE
       /\ fresh' = (fresh \/ ~detected)
       /\ acq' = IF detected THEN acq ELSE acq + 1
       /\ UNCHANGED <<firstFrame, recVars>>
  ELSE /\ detected' = FALSE
       /\ firstFrame' = FALSE
       /\ UNCHANGED <<rawBuf, fresh, acq>>
       /\ IF isRecording THEN stopRec(intervals, "signal") ELSE UNCHANGED recVars

\* variant: onResults stops the session only if the hand was detected before
onResultsStopsOnLoss(res) ==
  IF res \in Poses
  THEN /\ rawBuf' = RawOf(res)
       /\ detected' = TRUE
       /\ fresh' = (fresh \/ ~detected)
       /\ acq' = IF detected THEN acq ELSE acq + 1
       /\ UNCHANGED <<firstFrame, recVars>>
  ELSE /\ detected' = FALSE
       /\ firstFrame' = FALSE
       /\ UNCHANGED <<rawBuf, fresh, acq>>
       /\ IF isRecording /\ detected
          THEN stopRec(intervals, "signal")
          ELSE UNCHANGED recVars

\* variant: onResults takes up recording again when the hand is back after a
\* loss stopped the session
onResultsResumes(res) ==
  IF res \in Poses
  THEN /\ rawBuf' = RawOf(res)
       /\ detected' = TRUE
       /\ fresh' = (fresh \/ ~detected)
       /\ acq' = IF detected THEN acq ELSE acq + 1
       /\ isRecording' = (isRecording \/ stoppedBy = "signal")
       /\ UNCHANGED <<firstFrame, recFrames, recStart, recDur, recTimer, intervals,
                      lastCap, expVisible, rst, stoppedBy>>
  ELSE /\ detected' = FALSE
       /\ firstFrame' = FALSE
       /\ UNCHANGED <<rawBuf, fresh, acq>>
       /\ IF isRecording THEN stopRec(intervals, "signal") ELSE UNCHANGED recVars

\* variant: onResults that leaves the recorder alone when the hand is lost
onResultsNoStop(res) ==
  IF res \in Poses
  THEN /\ rawBuf' = RawOf(res)
       /\ detected' = TRUE
       /\ fresh' = (fresh \/ ~detected)
       /\ acq' = IF detected THEN acq ELSE acq + 1
       /\ UNCHANGED <<firstFrame, recVars>>
  ELSE /\ detected' = FALSE
       /\ firstFrame' = FALSE
       /\ UNCHANGED <<rawBuf, fresh, acq, recVars>>

\* variant: onResults that forgets to reset state.firstFrame
onResultsNoReset(res) ==
  IF res \in Poses
  THEN /\ rawBuf' = RawOf(res)
       /\ detected' = TRUE
       /\ fresh' = (fresh \/ ~detected)
       /\ acq' = IF detected THEN acq ELSE acq + 1
       /\ UNCHANGED <<firstFrame, recVars>>
  ELSE /\ detected' = FALSE
       /\ UNCHANGED <<firstFrame, rawBuf, fresh, acq>>
       /\ IF isRecording THEN stopRec(intervals, "signal") ELSE UNCHANGED recVars

\* onResults(results): res = 0 is a result without landmarks, res in Poses
\* one with the landmarks of that pose
onResults(res) ==
  IF res \in Poses
  THEN /\ rawBuf' = RawOf(res)
       /\ detected' = TRUE
       /\ fresh' = (fresh \/ ~detected)
       /\ acq' = IF detected THEN acq ELSE acq + 1
       /\ UNCHANGED <<firstFrame, recVars>>
  ELSE /\ detected' = FALSE
       /\ firstFrame' = FALSE
       /\ UNCHANGED <<rawBuf, fresh, acq>>
       /\ IF isRecording THEN stopRec(intervals, "signal") ELSE UNCHANGED recVars

\* clearTimeout(_timeout) of setMPRate
ClearTimeout(tms, h) == IF h # 0 THEN {t \in tms : t.id # h} ELSE tms

\* variant: setMPRate without its `if (_running)`
setMPRateAlwaysSchedules(fps) ==
  /\ mpFPS' = fps
  /\ schedule(ClearTimeout(timers, timeoutH), fps)

\* setMPRate(fps)
setMPRate(fps) ==
  /\ mpFPS' = fps
  /\ IF running
     THEN schedule(ClearTimeout(timers, timeoutH), fps)
     ELSE /\ timers' = ClearTimeout(timers, timeoutH)
          /\ UNCHANGED <<timeoutH, nextTimerId>>

\* startMPLoop()
startMPLoop ==
  /\ running' = TRUE
  /\ schedule(timers, mpFPS)


----------------------------------------------------------------------------
(* Steps.  Handler(o): a timer or detector callback o runs; UserInput(o):  *)
(* a DOM event handler o runs.                                              *)

Handler(o) ==
  /\ pc = "live"
  /\ op' = o
  /\ UNCHANGED <<now, horizon, renderPeriod, smooth0, pc, budget, videoReady>>
  /\ UNCHANGED expVars

UserInput(o) ==
  /\ pc = "live"
  /\ budget > 0
  /\ budget' = budget - 1
  /\ op' = o
  /\ UNCHANGED <<now, horizon, renderPeriod, smooth0, pc, videoReady>>
  /\ UNCHANGED expVars

Boot(from, to, o) ==
  /\ pc = from
  /\ pc' = to
  /\ op' = o
  /\ UNCHANGED <<now, horizon, renderPeriod, smooth0, budget, videoReady>>
  /\ UNCHANGED expVars

Deliver(c) == (inflight \ {c}) \cup {[c EXCEPT !.delivered = TRUE]}

(* main.js init(): the warm-up send of initTracking calls onResults like   *)
(* any other send; its failure is ignored.                                 *)
WarmupResult(res) ==
  /\ \E c \in inflight :
       /\ c.warm /\ ~c.delivered
       /\ inflight' = Deliver(c)
  /\ onResults(res)
  /\ pc = "warmup"
  /\ op' = "onResults"
  /\ UNCHANGED <<now, horizon, renderPeriod, smooth0, pc, budget, videoReady>>
  /\ UNCHANGED expVars
  /\ UNCHANGED <<running, timeoutH, timers, nextTimerId, nextSendId>>
  /\ UNCHANGED <<optVars, smoothPos, drawVars>>

WarmupSettle ==
  /\ Boot("warmup", "settings", "initTracking")
  /\ inflight' = {c \in inflight : ~c.warm}
  /\ UNCHANGED <<running, timeoutH, timers, nextTimerId, nextSendId>>
  /\ UNCHANGED <<optVars, flagVars, bufVars, recVars, drawVars>>

\* initSettings(): each makeSlider ends with update(), which stores the
\* slider's value in opts and, for the rate slider, calls setMPRate
InitSettings(a, fps) ==
  /\ Boot("settings", "mp", "initSettings")
  /\ smooth' = a
  /\ setMPRate(fps)
  /\ UNCHANGED <<running, inflight, nextSendId>>
  /\ UNCHANGED <<flagVars, bufVars, recVars, drawVars>>

StartMPLoop ==
  /\ Boot("mp", "render", "startMPLoop")
  /\ startMPLoop
  /\ UNCHANGED <<inflight, nextSendId>>
  /\ UNCHANGED <<optVars, flagVars, bufVars, recVars, drawVars>>

\* startRenderLoop(): the first frame callback comes with the next refresh
StartRenderLoop ==
  /\ Boot("render", "live", "startRenderLoop")
  /\ rafDue' = now + renderPeriod
  /\ UNCHANGED <<ticks, rigVisible>>
  /\ UNCHANGED <<trackVars, optVars, flagVars, bufVars, recVars>>

----------------------------------------------------------------------------
(* The detection loop *)

\* variant: runInference without its readiness test
TimerFireSendsAnyway(t) ==
  /\ t \in timers
  /\ t.due <= now
  /\ Handler("runInference")
  /\ timers' = timers \ {t}
  /\ inflight' = inflight \cup
       {[id |-> nextSendId, sentAt |-> now, delivered |-> FALSE, warm |-> FALSE]}
  /\ nextSendId' = nextSendId + 1
  /\ UNCHANGED <<timeoutH, nextTimerId>>
  /\ UNCHANGED running
  /\ UNCHANGED <<optVars, flagVars, bufVars, recVars, drawVars>>

\* variant: runInference returns without rescheduling when it must skip
TimerFireSkipEnds(t) ==
  /\ t \in timers
  /\ t.due <= now
  /\ Handler("runInference")
  /\ IF ~running \/ ~videoReady
     THEN /\ timers' = timers \ {t}
          /\ UNCHANGED <<inflight, nextSendId, timeoutH, nextTimerId>>
     ELSE /\ timers' = timers \ {t}
          /\ inflight' = inflight \cup
               {[id |-> nextSendId, sentAt |-> now, delivered |-> FALSE, warm |-> FALSE]}
          /\ nextSendId' = nextSendId + 1
          /\ UNCHANGED <<timeoutH, nextTimerId>>
  /\ UNCHANGED running
  /\ UNCHANGED <<optVars, flagVars, bufVars, recVars, drawVars>>

\* a detection timer fires: runInference up to its await
TimerFire(t) ==
  /\ t \in timers
  /\ t.due <= now
  /\ Handler("runInference")
  /\ IF ~running \/ ~videoReady
     THEN /\ schedule(timers \ {t}, mpFPS)
          /\ UNCHANGED <<inflight, nextSendId>>
     ELSE /\ timers' = timers \ {t}
          /\ inflight' = inflight \cup
               {[id |-> nextSendId, sentAt |-> now, delivered |-> FALSE, warm |-> FALSE]}
          /\ nextSendId' = nextSendId + 1
          /\ UNCHANGED <<timeoutH, nextTimerId>>
  /\ UNCHANGED running
  /\ UNCHANGED <<optVars, flagVars, bufVars, recVars, drawVars>>

\* the detector reports the result of an outstanding send
OnResults(c, res) ==
  /\ c \in inflight
  /\ ~c.warm /\ ~c.delivered
  /\ Handler("onResults")
  /\ inflight' = Deliver(c)
  /\ onResults(res)
  /\ UNCHANGED <<running, timeoutH, timers, nextTimerId, nextSendId>>
  /\ UNCHANGED <<optVars, smoothPos, drawVars>>

\* the send settles and runInference goes on after its await
AfterSend(c) ==
  /\ inflight' = inflight \ {c}
  /\ schedule(timers, mpFPS)
  /\ UNCHANGED <<running, nextSendId>>
  /\ UNCHANGED <<optVars, flagVars, bufVars, recVars, drawVars>>

SendResolve(c) ==
  /\ c \in inflight
  /\ ~c.warm /\ c.delivered
  /\ Handler("sendResolved")
  /\ AfterSend(c)

\* variant: a rejected send ends runInference without rescheduling
SendRejectEndsLoop(c) ==
  /\ c \in inflight
  /\ ~c.warm /\ ~c.delivered
  /\ Handler("sendRejected")
  /\ inflight' = inflight \ {c}
  /\ UNCHANGED <<running, timeoutH, timers, nextTimerId, nextSendId>>
  /\ UNCHANGED <<optVars, flagVars, bufVars, recVars, drawVars>>

\* the send fails: the catch of runInference swallows the error
SendReject(c) ==
  /\ c \in inflight
  /\ ~c.warm /\ ~c.delivered
  /\ Handler("sendRejected")
  /\ AfterSend(c)

\* the rate slider's input event: opts.mpFPS = v, then setMPRate(v)
RateSlider(fps) ==
  /\ UserInput("setMPRate")
  /\ setMPRate(fps)
  /\ UNCHANGED <<running, inflight, nextSendId, smooth>>
  /\ UNCHANGED <<flagVars, bufVars, recVars, drawVars>>

\* the smoothing slider's input event
SmoothSlider(a) ==
  /\ UserInput("setSmooth")
  /\ smooth' = a
  /\ UNCHANGED <<mpFPS, trackVars, flagVars, bufVars, recVars, drawVars>>

\* the image source stops or starts having a current frame
VideoChange ==
  /\ pc = "live"
  /\ budget > 0
  /\ budget' = budget - 1
  /\ videoReady' = ~videoReady
  /\ op' = "video"
  /\ UNCHANGED <<now, horizon, renderPeriod, smooth0, pc>>
  /\ UNCHANGED expVars
  /\ UNCHANGED <<trackVars, optVars, flagVars, bufVars, recVars, drawVars>>


----------------------------------------------------------------------------
(* renderer.js: loop(now), one display refresh *)

\* variant: loop samples whether or not a session is recording
SampleAlways(sp) == captureFrame(sp)

\* `if (state.isRecording) captureFrame()` of loop
SampleIfRecording(sp) ==
  IF isRecording THEN captureFrame(sp) ELSE UNCHANGED <<lastCap, recFrames>>

\* variant: the frame callback is held back while a send is outstanding
FrameDueWhenIdle == rafDue >= 0 /\ rafDue <= now /\ inflight = {}

\* the browser calls the frame callback that loop requested
FrameDue == rafDue >= 0 /\ rafDue <= now

\* variant: loop smooths whether or not a hand is detected
RenderTickAlwaysSmooths ==
  /\ FrameDue
  /\ Handler("loop")
  /\ rafDue' = now + renderPeriod
  /\ ticks' = ticks + 1
  /\ applySmoothing(smooth)
  /\ SampleIfRecording(smoothPos')
  /\ rigVisible' = detected
  /\ fresh' = FALSE
  /\ UNCHANGED <<detected, rawBuf, acq>>
  /\ UNCHANGED <<isRecording, recStart, recDur, recTimer, intervals, expVisible,
                 rst, stoppedBy>>
  /\ UNCHANGED <<trackVars, optVars>>

\* variant: loop samples before it smooths
RenderTickSamplesFirst ==
  /\ FrameDue
  /\ Handler("loop")
  /\ rafDue' = now + renderPeriod
  /\ ticks' = ticks + 1
  /\ IF detected
     THEN /\ SampleIfRecording(smoothPos)
          /\ applySmoothing(smooth)
          /\ rigVisible' = TRUE
          /\ fresh' = FALSE
     ELSE /\ rigVisible' = FALSE
          /\ UNCHANGED <<smoothPos, firstFrame, lastCap, recFrames, fresh>>
  /\ UNCHANGED <<detected, rawBuf, acq>>
  /\ UNCHANGED <<isRecording, recStart, recDur, recTimer, intervals, expVisible,
                 rst, stoppedBy>>
  /\ UNCHANGED <<trackVars, optVars>>

\* variant: without a hand loop still samples and leaves the rig as it was
RenderTickIdleSamples ==
  /\ FrameDue
  /\ Handler("loop")
  /\ rafDue' = now + renderPeriod
  /\ ticks' = ticks + 1
  /\ IF detected
     THEN /\ applySmoothing(smooth)
          /\ SampleIfRecording(smoothPos')
          /\ rigVisible' = TRUE
          /\ fresh' = FALSE
     ELSE /\ SampleIfRecording(smoothPos)
          /\ UNCHANGED <<smoothPos, firstFrame, rigVisible, fresh>>
  /\ UNCHANGED <<detected, rawBuf, acq>>
  /\ UNCHANGED <<isRecording, recStart, recDur, recTimer, intervals, expVisible,
                 rst, stoppedBy>>
  /\ UNCHANGED <<trackVars, optVars>>

\* loop(now): one display refresh
RenderTick ==
  /\ FrameDue
  /\ Handler("loop")
  /\ rafDue' = now + renderPeriod
  /\ ticks' = ticks + 1
  /\ IF detected
     THEN /\ applySmoothing(smooth)
          /\ SampleIfRecording(smoothPos')
          /\ rigVisible' = TRUE
          /\ fresh' = FALSE
     ELSE /\ rigVisible' = FALSE
          /\ UNCHANGED <<smoothPos, firstFrame, lastCap, recFrames, fresh>>
  /\ UNCHANGED <<detected, rawBuf, acq>>
  /\ UNCHANGED <<isRecording, recStart, recDur, recTimer, intervals, expVisible,
                 rst, stoppedBy>>
  /\ UNCHANGED <<trackVars, optVars>>

----------------------------------------------------------------------------
(* recording.js: the handlers initRecording wires up, and the poll *)

\* variant: starting a session resets state.firstFrame
RecBtnClickResetsSnap ==
  /\ UserInput("recbtn")
  /\ IF isRecording
     THEN stopRec(intervals, "click") /\ UNCHANGED <<nextTimerId, firstFrame>>
     ELSE startRec /\ firstFrame' = FALSE
  /\ UNCHANGED <<running, timeoutH, timers, inflight, nextSendId>>
  /\ UNCHANGED <<optVars, detected, fresh, acq, bufVars, drawVars>>

\* click on the record button: state.isRecording ? stopRec() : startRec()
RecBtnClick ==
  /\ UserInput("recbtn")
  /\ IF isRecording
     THEN stopRec(intervals, "click") /\ UNCHANGED nextTimerId
     ELSE startRec
  /\ UNCHANGED <<running, timeoutH, timers, inflight, nextSendId>>
  /\ UNCHANGED <<optVars, flagVars, bufVars, drawVars>>

\* variant: the duration buttons' handler without `if (state.isRecording) return`
DurBtnClickAnytime(sec) ==
  /\ UserInput("durbtn")
  /\ recDur' = sec
  /\ UNCHANGED <<isRecording, recFrames, recStart, recTimer, intervals,
                 lastCap, expVisible, rst, stoppedBy>>
  /\ UNCHANGED <<trackVars, optVars, flagVars, bufVars, drawVars>>

\* click on a duration button with data-sec = sec
DurBtnClick(sec) ==
  /\ UserInput("durbtn")
  /\ recDur' = IF isRecording THEN recDur ELSE sec
  /\ UNCHANGED <<isRecording, recFrames, recStart, recTimer, intervals,
                 lastCap, expVisible, rst, stoppedBy>>
  /\ UNCHANGED <<trackVars, optVars, flagVars, bufVars, drawVars>>

\* variant: the duration test with > for >=
DurationExceeded(t, start, dur) == t - start > dur * UnitsPerSec

\* the duration test of _tickUI: el >= _recDur, el in seconds
DurationReached(t, start, dur) == t - start >= dur * UnitsPerSec

\* variant: _tickUI without its `if (_recDur > 0)`
TickUINoZeroTest(iv) ==
  /\ iv \in intervals
  /\ iv.due <= now
  /\ Handler("tickUI")
  /\ LET rearmed == (intervals \ {iv}) \cup {[iv EXCEPT !.due = iv.due + PollInterval]}
     IN  IF isRecording /\ DurationReached(now, recStart, recDur)
         THEN stopRec(rearmed, "duration")
         ELSE /\ intervals' = rearmed
              /\ UNCHANGED <<isRecording, recFrames, recStart, recDur, recTimer,
                             lastCap, expVisible, rst, stoppedBy>>
  /\ UNCHANGED <<trackVars, optVars, flagVars, bufVars, drawVars>>

\* an interval timer fires: _tickUI(); the timer stays armed unless cleared
TickUI(iv) ==
  /\ iv \in intervals
  /\ iv.due <= now
  /\ Handler("tickUI")
  /\ LET rearmed == (intervals \ {iv}) \cup {[iv EXCEPT !.due = iv.due + PollInterval]}
     IN  IF isRecording /\ recDur > 0 /\ DurationReached(now, recStart, recDur)
         THEN stopRec(rearmed, "duration")
         ELSE /\ intervals' = rearmed
              /\ UNCHANGED <<isRecording, recFrames, recStart, recDur, recTimer,
                             lastCap, expVisible, rst, stoppedBy>>
  /\ UNCHANGED <<trackVars, optVars, flagVars, bufVars, drawVars>>

----------------------------------------------------------------------------
(* Time passes: the clock moves on to the next instant at which a         *)
(* callback is due.  User inputs and detector completions happen at these  *)
(* instants, in any order with the callbacks.                              *)

DueTimes ==
  {t.due : t \in timers} \cup {iv.due : iv \in intervals}
    \cup (IF rafDue >= 0 THEN {rafDue} ELSE {})

NextDue == CHOOSE d \in DueTimes : \A e \in DueTimes : d <= e

Tick ==
  /\ pc = "live"
  /\ DueTimes # {}
  /\ NextDue > now
  /\ NextDue <= horizon
  /\ now' = NextDue
  /\ op' = "time"
  /\ UNCHANGED <<horizon, renderPeriod, smooth0, pc, budget, videoReady>>
  /\ UNCHANGED expVars
  /\ UNCHANGED <<trackVars, optVars, flagVars, bufVars, recVars, drawVars>>

----------------------------------------------------------------------------
(* The program: boot, then the two loops, the recorder and the user *)

\* main.js init(); the sliders start at the defaults of config.js.  rs: the
\* results the detector may report
BootSteps(rs) ==
  \/ \E res \in rs : WarmupResult(res)
  \/ WarmupSettle
  \/ InitSettings(DefaultSmooth, DefaultFPS)
  \/ StartMPLoop
  \/ StartRenderLoop

BootStep == BootSteps(Results)

DetectTimer == \E t \in timers : TimerFire(t)

DetectStep ==
  \/ DetectTimer
  \/ \E c \in inflight, res \in Results : OnResults(c, res)
  \/ \E c \in inflight : SendResolve(c)
  \/ \E c \in inflight : SendReject(c)

SettingsInput ==
  \/ \E fps \in FpsChoices : RateSlider(fps)
  \/ \E a \in AlphaChoices : SmoothSlider(a)
  \/ VideoChange

RecorderInput ==
  \/ RecBtnClick
  \/ \E sec \in DurChoices : DurBtnClick(sec)

PollStep == \E iv \in intervals : TickUI(iv)

Next ==
  \/ BootStep
  \/ DetectStep
  \/ RenderTick
  \/ PollStep
  \/ SettingsInput
  \/ RecorderInput
  \/ Tick

Spec == Init /\ [][Next]_vars

(* The detection and render activities with the recorder left idle, under  *)
(* the scheduling the event loop guarantees: a callback that is due runs,  *)
(* and time passes.  Nothing is assumed of the detector (a send may never  *)
(* settle) or of the user.                                                 *)
NextLive ==
  \/ BootStep
  \/ DetectStep
  \/ RenderTick
  \/ SettingsInput
  \/ Tick

LiveSpec ==
  /\ Init /\ [][NextLive]_vars
  /\ WF_vars(BootStep)
  /\ WF_vars(DetectTimer)
  /\ WF_vars(RenderTick)
  /\ WF_vars(Tick)

\* a send settles, one way or the other
Settle == \E c \in inflight : SendResolve(c) \/ SendReject(c)

(* The detection loop with a detector whose every send settles in the end, *)
(* and an image source that may stop or start being ready                  *)
NextLoop ==
  \/ BootStep
  \/ DetectStep
  \/ RenderTick
  \/ VideoChange
  \/ Tick

SettlingSpec ==
  /\ Init /\ [][NextLoop]_vars
  /\ WF_vars(BootStep)
  /\ WF_vars(DetectTimer)
  /\ WF_vars(Settle)
  /\ WF_vars(RenderTick)
  /\ WF_vars(Tick)

----------------------------------------------------------------------------
(* The program with the recorder's controls only, and more inputs *)

InitRec ==
  /\ InitCommon
  /\ horizon = BootTime + Horizon
  /\ renderPeriod = RefreshPeriod
  /\ budget = MaxUserEvents + 2

NextRec ==
  \/ BootStep
  \/ DetectStep
  \/ RenderTick
  \/ PollStep
  \/ RecorderInput
  \/ Tick

SpecRec == InitRec /\ [][NextRec]_vars

----------------------------------------------------------------------------
(* The exported operations called directly, in any state: startMPLoop,     *)
(* startRec and stopRec are exports of their modules.                      *)

StartMPLoopCall ==
  /\ UserInput("startMPLoop")
  /\ startMPLoop
  /\ UNCHANGED <<inflight, nextSendId>>
  /\ UNCHANGED <<optVars, flagVars, bufVars, recVars, drawVars>>

StartRecCall ==
  /\ UserInput("startRec")
  /\ startRec
  /\ UNCHANGED <<running, timeoutH, timers, inflight, nextSendId>>
  /\ UNCHANGED <<optVars, flagVars, bufVars, drawVars>>

StopRecCall ==
  /\ UserInput("stopRec")
  /\ stopRec(intervals, "call")
  /\ UNCHANGED <<trackVars, optVars, flagVars, bufVars, drawVars>>

InitApi ==
  /\ InitCommon
  /\ horizon = BootTime + Horizon
  /\ renderPeriod = RefreshPeriod
  /\ budget = MaxUserEvents + 1

NextApi ==
  \/ BootStep
  \/ DetectStep
  \/ RenderTick
  \/ PollStep
  \/ RecBtnClick
  \/ StartRecCall
  \/ StopRecCall
  \/ Tick

SpecApi == InitApi /\ [][NextApi]_vars

NextLoopApi ==
  \/ BootStep
  \/ DetectStep
  \/ RenderTick
  \/ StartMPLoopCall
  \/ Tick

SpecLoopApi == Init /\ [][NextLoopApi]_vars

\* setMPRate is an export too: arguments inside and outside the range 5..30
\* that initSliders gives for the rate slider
RateArgs == {1, 20, 60}

SetMPRateCall(fps) ==
  /\ UserInput("setMPRate")
  /\ setMPRate(fps)
  /\ UNCHANGED <<running, inflight, nextSendId, smooth>>
  /\ UNCHANGED <<flagVars, bufVars, recVars, drawVars>>

NextRateApi ==
  \/ BootStep
  \/ DetectStep
  \/ RenderTick
  \/ \E fps \in RateArgs : SetMPRateCall(fps)
  \/ Tick

SpecRateApi == Init /\ [][NextRateApi]_vars

\* captureFrame is an export of recording.js: a call from outside loop
CaptureFrameCall ==
  /\ UserInput("captureFrame")
  /\ captureFrame(smoothPos)
  /\ UNCHANGED <<isRecording, recStart, recDur, recTimer, intervals, expVisible,
                 rst, stoppedBy>>
  /\ UNCHANGED <<trackVars, optVars, flagVars, bufVars, drawVars>>

NextCaptureApi ==
  \/ BootStep
  \/ DetectStep
  \/ RenderTick
  \/ PollStep
  \/ RecBtnClick
  \/ CaptureFrameCall
  \/ Tick

SpecCaptureApi == InitApi /\ [][NextCaptureApi]_vars

----------------------------------------------------------------------------
(* The boot with the rate slider at any of its values when initSettings    *)
(* reads it                                                                *)

SliderInit == \E fps \in FpsChoices : InitSettings(DefaultSmooth, fps)

NextBoot ==
  \/ BootStep
  \/ SliderInit
  \/ DetectStep
  \/ RenderTick
  \/ Tick

SpecBoot == Init /\ [][NextBoot]_vars

----------------------------------------------------------------------------
(* export.js: the click handlers initExport wires up.  The handlers are    *)
(* run in any state, the export button shown or not.                       *)

ExportInput(o) ==
  /\ pc = "live"
  /\ budget > 0
  /\ budget' = budget - 1
  /\ op' = o
  /\ UNCHANGED <<now, horizon, renderPeriod, smooth0, pc, videoReady>>
  /\ UNCHANGED <<trackVars, optVars, flagVars, bufVars, recVars, drawVars>>

\* openModal(): click on the export button
OpenModal ==
  /\ ExportInput("openModal")
  /\ modalVisible' = IF Len(recFrames) = 0 THEN modalVisible ELSE TRUE
  /\ UNCHANGED zips

\* closeModal(): click on the close button
CloseModal ==
  /\ ExportInput("closeModal")
  /\ modalVisible' = FALSE
  /\ UNCHANGED zips

\* downloadZip() up to its await: click on the download button
DownloadZip ==
  /\ ExportInput("downloadZip")
  /\ zips' = IF Len(recFrames) = 0 THEN zips
             ELSE [zips EXCEPT !.pending = @ + 1]
  /\ UNCHANGED modalVisible

\* zip.generateAsync settles: downloadZip hands over the archive and closes
\* the dialog
ZipDone ==
  /\ pc = "live"
  /\ zips.pending > 0
  /\ op' = "zipDone"
  /\ zips' = [pending |-> zips.pending - 1, done |-> zips.done + 1]
  /\ modalVisible' = FALSE
  /\ UNCHANGED <<now, horizon, renderPeriod, smooth0, pc, budget, videoReady>>
  /\ UNCHANGED <<trackVars, optVars, flagVars, bufVars, recVars, drawVars>>

ExportStep ==
  \/ OpenModal
  \/ CloseModal
  \/ DownloadZip
  \/ ZipDone

NextExport ==
  \/ BootStep
  \/ DetectStep
  \/ RenderTick
  \/ PollStep
  \/ RecBtnClick
  \/ ExportStep
  \/ Tick

SpecExport == InitApi /\ [][NextExport]_vars

----------------------------------------------------------------------------
(* Steady tracking: the hand stays in view in one pose and the detector    *)
(* answers every send within the instant it was issued.  The user starts a *)
(* session within StartWindow of the loops' start, while the hand is       *)
(* detected.                                                               *)

SteadyDetect ==
  \/ DetectTimer
  \/ \E c \in inflight : OnResults(c, 1)
  \/ \E c \in inflight : SendResolve(c)

SteadyTick == inflight = {} /\ Tick

StartClick ==
  /\ detected
  /\ ~isRecording
  /\ now <= BootTime + StartWindow
  /\ RecBtnClick

\* the user stops the session d after its start
StopClickAfter(d) ==
  /\ isRecording
  /\ now - recStart = d
  /\ RecBtnClick

(* A 240 Hz display, and a session stopped by hand after one second *)
InitRate ==
  /\ InitCommon
  /\ horizon = BootTime + StartWindow + UnitsPerSec + CAP_INTERVAL
  /\ renderPeriod = UnitsPerSec \div 240
  /\ budget = 2

NextRate ==
  \/ BootSteps({1})
  \/ SteadyDetect
  \/ RenderTick
  \/ PollStep
  \/ StartClick
  \/ StopClickAfter(UnitsPerSec)
  \/ SteadyTick

SpecRate == InitRate /\ [][NextRate]_vars

(* A 60 Hz display, and a session left to its duration limit *)
InitDur ==
  /\ InitCommon
  /\ horizon = BootTime + StartWindow + DefaultDur * UnitsPerSec + 2 * PollInterval
  /\ renderPeriod = RefreshPeriod
  /\ budget = 2

NextDur ==
  \/ BootSteps({1})
  \/ SteadyDetect
  \/ RenderTick
  \/ PollStep
  \/ StartClick
  \/ \E sec \in DurChoices : DurBtnClick(sec)
  \/ SteadyTick

SpecDur == InitDur /\ [][NextDur]_vars

(* A 60 Hz display, and a session without a limit that runs past the        *)
(* default limit and is then stopped by a click or by the loss of the hand *)
InitUnlimited ==
  /\ InitCommon
  /\ horizon = BootTime + StartWindow + DefaultDur * UnitsPerSec + 2 * PollInterval
  /\ renderPeriod = RefreshPeriod
  /\ budget = 3

\* the detector loses the hand once the session has run d or longer
LossAfter(d) ==
  /\ isRecording
  /\ now - recStart >= d
  /\ \E c \in inflight : OnResults(c, 0)

\* the user starts a session once the limit is off
UnlimitedStart == recDur = 0 /\ StartClick

NextUnlimited ==
  \/ BootSteps({1})
  \/ SteadyDetect
  \/ RenderTick
  \/ PollStep
  \/ UnlimitedStart
  \/ DurBtnClick(0)
  \/ StopClickAfter(DefaultDur * UnitsPerSec + PollInterval)
  \/ LossAfter(DefaultDur * UnitsPerSec + PollInterval)
  \/ SteadyTick

SpecUnlimited == InitUnlimited /\ [][NextUnlimited]_vars

(* smoothing.js alone: the detector has reported a hand and its next send  *)
(* never settles, so rawBuf is held while the render loop goes on          *)
(* smoothing.  The run starts mid-session (state.firstFrame is true) from  *)
(* any of a set of values of opts.smooth, rawBuf and smoothPos.            *)

SmoothAlphas == {18, 50, 100}

\* rawBuf with point 0 at (1, 0, 0) and the other points at the origin
UnitRaw == [k \in 0..(NJ * 3 - 1) |-> IF k = 0 THEN 10^7 ELSE 0]
RawChoices == {RawOf(p) : p \in Poses} \cup {UnitRaw}

\* smoothPos starts at these distances from rawBuf, axis by axis
Offsets == {-(10^7), -2222222, 0, 12 * 10^6}

\* the least n with (1 - alpha)^n <= 0.001, which is
\* ceil(ln(0.001) / ln(1 - alpha)); p is (1 - alpha)^n in units of 1e-7
RECURSIVE DecayTicks(_, _, _)
DecayTicks(a, p, n) ==
  IF p <= 10^4 THEN n ELSE DecayTicks(a, (p * (100 - a)) \div 100, n + 1)
MinTicks(a) == DecayTicks(a, 10^7, 0)

InitSmooth ==
  /\ now = BootTime
  /\ horizon = BootTime + (MinTicks(DefaultSmooth) + 1) * RefreshPeriod
  /\ renderPeriod = RefreshPeriod
  /\ pc = "live"
  /\ budget = 0
  /\ videoReady = TRUE
  /\ op = "load"
  /\ running = TRUE
  /\ timeoutH = 1
  /\ timers = {}
  /\ nextTimerId = 2
  /\ inflight = {[id |-> 1, sentAt |-> BootTime, delivered |-> FALSE, warm |-> FALSE]}
  /\ nextSendId = 2
  /\ smooth \in SmoothAlphas
  /\ mpFPS = DefaultFPS
  /\ detected = TRUE
  /\ firstFrame = TRUE
  /\ isRecording = FALSE
  /\ rawBuf \in RawChoices
  /\ \E dx \in Offsets, dy \in Offsets, dz \in Offsets :
       smoothPos = [i \in 0..(NJ - 1) |->
                      [x |-> Fl(rawBuf[3 * i] + dx),
                       y |-> Fl(rawBuf[3 * i + 1] + dy),
                       z |-> Fl(rawBuf[3 * i + 2] + dz)]]
  /\ smooth0 = smoothPos
  /\ modalVisible = FALSE
  /\ zips = [pending |-> 0, done |-> 0]
  /\ recFrames = <<>>
  /\ recStart = 0
  /\ recDur = DefaultDur
  /\ recTimer = 0
  /\ intervals = {}
  /\ lastCap = 0
  /\ expVisible = FALSE
  /\ rst = "INIT"
  /\ rafDue = BootTime + RefreshPeriod
  /\ ticks = 0
  /\ rigVisible = TRUE
  /\ fresh = FALSE
  /\ acq = 1
  /\ stoppedBy = "none"

NextSmooth ==
  \/ RenderTick
  \/ Tick

SpecSmooth == InitSmooth /\ [][NextSmooth]_vars

TypeOK ==
  /\ now \in BootTime..horizon
  /\ pc \in {"warmup", "settings", "mp", "render", "live"}
  /\ budget \in 0..(MaxUserEvents + 2)
  /\ stoppedBy \in {"none", "click", "signal", "duration", "call"}
  /\ detected \in BOOLEAN /\ firstFrame \in BOOLEAN /\ isRecording \in BOOLEAN
  /\ DOMAIN rawBuf = 0..(NJ * 3 - 1)
  /\ DOMAIN smoothPos = 0..(NJ - 1)
  /\ recDur \in DurChoices \cup {DefaultDur}
  /\ rst \in {"INIT", "REC", "DONE"}


----------------------------------------------------------------------------
(* Properties *)

Outstanding == {c \in inflight : ~c.warm}

\* C1: at most one detector call is outstanding at any instant, whatever the
\* interleaving of timer firings, completions and rate changes
C1_AtMostOneOutstanding == Cardinality(Outstanding) <= 1

\* C2: the render tick never waits on detection: once the render loop runs,
\* exactly one frame callback is pending, it is due within one refresh
\* period, the number of ticks so far is fixed by the time elapsed and the
\* refresh period alone, and the ticks go on to the end of the time explored
\* even if a send never settles
C2_RenderNeverWaits ==
  /\ [](pc = "live" =>
          /\ rafDue = BootTime + (ticks + 1) * renderPeriod
          /\ rafDue - renderPeriod <= now
          /\ now <= rafDue)
  /\ <>(ticks = Horizon \div RefreshPeriod)

\* C2 witness: every tick of the run has happened while a send has been
\* outstanding for three refresh periods or more
C2_Witness ==
  /\ ticks = Horizon \div RefreshPeriod
  /\ \E c \in Outstanding : now - c.sentAt >= 3 * renderPeriod

RawPoint(i) == [x |-> rawBuf[3 * i], y |-> rawBuf[3 * i + 1], z |-> rawBuf[3 * i + 2]]

\* C3: the first smoothing step after state.detected went from false to true
\* sets every point of smoothPos to the point of rawBuf, whatever smoothPos
\* held and whatever alpha is
C3_FirstFrameSnap ==
  [][(op' = "loop" /\ detected /\ fresh) =>
       \A i \in 0..(NJ - 1) : smoothPos'[i] = RawPoint(i)]_vars

\* C3 witness: the hand was lost and found again in another pose, and a
\* smoothing step has run since
C3_Witness ==
  /\ acq >= 2
  /\ op = "loop"
  /\ detected
  /\ ~fresh
  /\ rawBuf = RawOf(2)
  /\ \A i \in 0..(NJ - 1) : smoothPos[i] = RawPoint(i)

\* C4: startRec is a no-op while a session is recording (frames, start time,
\* last capture time and poll timers unchanged), and starts a fresh session
\* when idle
C4_StartNoOpWhileRecording ==
  [][op' = "startRec" =>
       IF isRecording
       THEN UNCHANGED <<isRecording, recFrames, recStart, lastCap, recTimer, intervals>>
       ELSE recFrames' = <<>> /\ recStart' = now /\ isRecording']_vars

NoEntityWhileRecording == op' = "onResults" /\ ~detected' /\ isRecording

\* C5 as stated: a no-entity result during a session ends it within the
\* callback and leaves a non-empty frame sequence, offered for export
C5_SignalLossLeavesFrames ==
  [][NoEntityWhileRecording =>
       /\ ~isRecording'
       /\ recFrames' = recFrames
       /\ Len(recFrames') > 0
       /\ expVisible']_vars

\* C5, amended: a no-entity result during a session ends it within the
\* callback and leaves the frame sequence as it was; it is non-empty and
\* offered for export if a frame had been captured, and empty and not
\* offered otherwise
C5_SignalLossStops ==
  [][NoEntityWhileRecording =>
       /\ ~isRecording'
       /\ recFrames' = recFrames
       /\ expVisible' = (Len(recFrames) > 0)]_vars

\* C5 witness: the hand was lost during a session that had captured frames
C5_Witness ==
  /\ op = "onResults"
  /\ stoppedBy = "signal"
  /\ Len(recFrames) > 0
  /\ expVisible

\* C6: a session with a duration limit, left alone, is stopped by the poll
\* when its elapsed time reaches the limit; no frame carries a timestamp
\* beyond the limit plus one poll interval; the poll changes neither
\* state.detected, state.firstFrame, rawBuf nor smoothPos
C6_DurationAutoStop ==
  [][/\ (isRecording' /\ recDur' > 0) => now' - recStart' <= recDur' * UnitsPerSec
     /\ recDur' > 0 =>
          \A k \in 1..Len(recFrames') :
            recFrames'[k].t <= ToFixed4(recDur' * UnitsPerSec + PollInterval)
     /\ (op' = "tickUI" /\ isRecording /\ ~isRecording') =>
          /\ stoppedBy' = "duration"
          /\ rst' = "DONE"
          /\ recFrames' = recFrames
     /\ op' = "tickUI" => UNCHANGED <<detected, firstFrame, rawBuf, smoothPos>>]_vars

\* C6 witness: the poll has stopped a session of 5 s that captured frames
C6_Witness ==
  /\ stoppedBy = "duration"
  /\ op = "tickUI"
  /\ recDur = DefaultDur
  /\ now - recStart = DefaultDur * UnitsPerSec
  /\ Len(recFrames) > 0

C8_FramesFrozenAfterStop ==
  [][(rst = "DONE" /\ ~isRecording /\ ~isRecording') => recFrames' = recFrames]_vars

\* C8 witness: a render tick with the hand detected ran after a session with
\* frames had been stopped
C8_Witness ==
  /\ stoppedBy \in {"click", "signal"}
  /\ ~isRecording
  /\ op = "loop"
  /\ detected
  /\ Len(recFrames) > 0

PollIds == {iv.id : iv \in intervals}

\* C9: a stop that finds no session recording (a second stopRec call, a
\* no-entity result, a poll) changes nothing of the recorder
C9_StopWhenIdleNoOp ==
  [][(~isRecording /\ op' \in {"stopRec", "onResults", "tickUI"}) =>
       /\ ~isRecording'
       /\ PollIds' = PollIds
       /\ UNCHANGED <<recFrames, recStart, recDur, recTimer, lastCap, expVisible, rst>>]_vars

\* C9 witness: stopRec was called after a no-entity result or a click had
\* already stopped the session
C9_Witness ==
  /\ op = "stopRec"
  /\ stoppedBy \in {"click", "signal"}
  /\ ~isRecording

\* C10: startMPLoop called while the loop runs leaves the pending detection
\* timers, and so the number of loop chains, as they were
C10_StartLoopIdempotent ==
  [][(op' = "startMPLoop" /\ running) =>
       /\ timers' = timers
       /\ Cardinality(timers') + Cardinality(inflight') =
            Cardinality(timers) + Cardinality(inflight)]_vars

\* C11: setMPRate while the loop runs.  With a detection timer pending and
\* no send outstanding, that timer is cancelled and one timer of the new
\* period is armed; with a send outstanding, the send stays outstanding and
\* no timer is armed by the call (the new period is used by the wait that
\* follows the send)
C11_RateChangeReschedules ==
  [][(op' = "setMPRate" /\ running) =>
       /\ inflight' = inflight
       /\ IF Outstanding = {}
          THEN \E t \in timers :
                 /\ t.id = timeoutH
                 /\ timers' = (timers \ {t}) \cup
                      {[id |-> nextTimerId, due |-> now + Period(mpFPS')]}
          ELSE timers' = timers]_vars

\* C12: a rejected send changes neither rawBuf, state.detected,
\* state.firstFrame, state.isRecording nor recFrames, and the next cycle is
\* scheduled as after a send that resolved: one timer, 1000 / opts.mpFPS ms
\* from the instant the send settled
C12_FailureDiscarded ==
  [][(op' \in {"sendRejected", "sendResolved"}) =>
       /\ op' = "sendRejected" =>
            UNCHANGED <<rawBuf, detected, firstFrame, isRecording, recFrames>>
       /\ Cardinality(inflight') = Cardinality(inflight) - 1
       /\ timers' = timers \cup {[id |-> nextTimerId, due |-> now + Period(mpFPS)]}
       /\ timeoutH' = nextTimerId]_vars

\* C12 witness: a send was rejected while the hand was detected and a session
\* was recording, and the next inference is due one period later
C12_Witness ==
  /\ op = "sendRejected"
  /\ detected
  /\ isRecording
  /\ \E t \in timers : t.id = timeoutH /\ t.due = now + Period(mpFPS)

\* the distance of coordinate k of sp (0..NJ*3-1) from rawBuf
Dist(sp, k) ==
  LET pt == sp[k \div 3]
  IN  Abs(rawBuf[k] - (CASE k % 3 = 0 -> pt.x [] k % 3 = 1 -> pt.y [] OTHER -> pt.z))

Coords == 0..(NJ * 3 - 1)

\* C13 as stated: rawBuf held, after ceil(ln(0.001)/ln(1-alpha)) smoothing
\* steps or more every coordinate of smoothPos is within 0.001 of rawBuf,
\* whatever smoothPos was at the start
C13_ConvergesWithinThousandth ==
  (firstFrame /\ ticks >= MinTicks(smooth)) =>
     \A k \in Coords : Dist(smoothPos, k) <= 10^4

\* C13, amended: after that many steps the distance of every coordinate from
\* rawBuf is at most a thousandth of its distance at the start (and rounding
\* of at most two spacings of the arithmetic), so it is within 0.001 for the
\* coordinates that started within 1 of rawBuf
C13_DecaysToThousandth ==
  (firstFrame /\ ticks >= MinTicks(smooth)) =>
     \A k \in Coords :
        /\ Dist(smoothPos, k) <= Dist(smooth0, k) \div 1000 + 2 * Ulp[Dist(smooth0, k)]
        /\ Dist(smooth0, k) <= 10^7 => Dist(smoothPos, k) <= 10^4

\* C13 witness: 35 steps at alpha = 0.18 from a distance of 1 (point 0, axis
\* x) have left a distance that is not zero and not above 0.001
C13_Witness ==
  /\ smooth = DefaultSmooth
  /\ ticks = MinTicks(DefaultSmooth)
  /\ rawBuf = UnitRaw
  /\ smooth0[0].x = 0
  /\ Dist(smoothPos, 0) > 0
  /\ Dist(smoothPos, 0) <= 10^4

\* coordinate k of sp
Coord(sp, k) ==
  LET pt == sp[k \div 3]
  IN  CASE k % 3 = 0 -> pt.x [] k % 3 = 1 -> pt.y [] OTHER -> pt.z

\* a smoothing step with state.firstFrame true
LerpStep == op' = "loop" /\ detected /\ firstFrame

\* what a smoothing step computes, coordinate by coordinate, and the two
\* steps from 0 towards 1 at alpha = 0.18
StepLaw ==
  /\ \A k \in Coords :
       Coord(smoothPos', k) = Lerp(Coord(smoothPos, k), rawBuf[k], smooth)
  /\ (smooth = DefaultSmooth /\ rawBuf = UnitRaw /\ smooth0[0].x = 0) =>
       /\ ticks' = 1 => smoothPos'[0].x = 18 * 10^5
       /\ ticks' = 2 => smoothPos'[0].x = 3276 * 10^3

\* C14 as stated: each of the 63 coordinates becomes
\* smooth + (raw - smooth) * alpha on its own, which gives 0.18 and 0.3276
\* after one and two steps from 0 towards 1 at alpha = 0.18, and rawBuf
\* exactly at alpha = 1
C14_LerpPerCoordinate ==
  [][LerpStep =>
       /\ StepLaw
       /\ smooth = 100 => \A k \in Coords : Coord(smoothPos', k) = rawBuf[k]]_vars

\* C14, amended: the same, but at alpha = 1 the result is rawBuf up to the
\* rounding of raw - smooth: it differs from rawBuf by at most the spacing
\* of the arithmetic at that difference, and is rawBuf exactly where the
\* difference is computed without rounding
C14_LerpPerCoordinateRounded ==
  [][LerpStep =>
       /\ StepLaw
       /\ smooth = 100 =>
            \A k \in Coords :
              LET d == rawBuf[k] - Coord(smoothPos, k)
              IN  /\ Abs(Coord(smoothPos', k) - rawBuf[k]) <= Ulp[Abs(d)]
                  /\ Fl(d) = d => Coord(smoothPos', k) = rawBuf[k]]_vars

\* C14 witness: the second step from 0 towards 1 at alpha = 0.18 has run
C14_Witness ==
  /\ op = "loop"
  /\ smooth = DefaultSmooth
  /\ rawBuf = UnitRaw
  /\ smooth0[0].x = 0
  /\ ticks = 2
  /\ smoothPos[0].x = 3276 * 10^3

\* C15: after a detector callback state.detected tells whether the result
\* held landmarks; a result with landmarks writes the 21 points of rawBuf
\* (x and y mirrored about 0.5 and scaled, z scaled by -0.8); a result
\* without landmarks clears state.detected and state.firstFrame and leaves
\* no session recording
C15_FlagFollowsResult ==
  [][\A res \in Results :
       (op' = "onResults" /\ onResults(res)) =>
          /\ detected' = (res \in Poses)
          /\ res \in Poses =>
               \A i \in 0..(NJ - 1) :
                 /\ rawBuf'[3 * i] = -((Landmark(res, i).x - 500) * Scale)
                 /\ rawBuf'[3 * i + 1] = -((Landmark(res, i).y - 500) * Scale)
                 /\ rawBuf'[3 * i + 2] = -(Landmark(res, i).z * DepthScale)
          /\ res \notin Poses => (~firstFrame' /\ ~isRecording')]_vars

\* C15 witness: the hand was found again in pose 2 after a loss, and no
\* smoothing step has run since
C15_Witness ==
  /\ op = "onResults"
  /\ detected
  /\ fresh
  /\ acq >= 2
  /\ rawBuf = RawOf(2)

\* C16: the detection loop does not end.  While it runs a timer is pending or
\* a send is outstanding, whatever failed or was skipped before; every send
\* settles; and when no send is outstanding and the image source is ready, a
\* new send is started later, unless the source stops being ready or the
\* pending timer is due after the last instant explored
C16_LoopKeepsSending ==
  /\ []((pc = "live" /\ running) => (timers # {} \/ Outstanding # {}))
  /\ (Outstanding # {}) ~> (Outstanding = {})
  /\ (pc = "live" /\ running /\ Outstanding = {} /\ videoReady)
       ~> \/ op = "runInference" /\ Outstanding # {}
          \/ ~videoReady
          \/ \A t \in timers : t.due > horizon

\* C16 witness: the loop's second send has been started, and no hand was
\* reported by the first
C16_Witness ==
  /\ op = "runInference"
  /\ nextSendId = 3
  /\ \E c \in Outstanding : c.id = 2
  /\ videoReady
  /\ acq = 0

\* C17: the configured inference rate stays within 5..30 fps, whatever
\* setMPRate is called with
C17_RateWithinRange == mpFPS >= 5 /\ mpFPS <= 30

\* C18: captureFrame called while no session is recording appends no frame
\* and changes nothing of the recorder
C18_SampleNoOpWhenIdle ==
  [][(op' = "captureFrame" /\ ~isRecording) => UNCHANGED recVars]_vars

\* C19: a frame is appended only if the capture interval has passed since the
\* frame before it, so the timestamps of consecutive frames are at least
\* 1000/30 ms apart (to the four decimals recorded); a sample that comes
\* sooner changes neither recFrames nor _lastCap
C19_MinCaptureInterval ==
  /\ [](\A k \in 1..(Len(recFrames) - 1) :
          recFrames[k + 1].t - recFrames[k].t >= ToFixed4(CAP_INTERVAL))
  /\ [][/\ (Len(recFrames') > Len(recFrames) /\ Len(recFrames) > 0) =>
             (now - lastCap >= CAP_INTERVAL /\ lastCap' = now)
        /\ (op' = "loop" /\ isRecording /\ now - lastCap < CAP_INTERVAL) =>
             UNCHANGED <<recFrames, lastCap>>]_vars

\* C19 witness: at 240 Hz, a render tick of a session with two frames or more
\* came three refreshes after the last capture and was dropped
C19_Witness ==
  /\ op = "loop"
  /\ renderPeriod = UnitsPerSec \div 240
  /\ isRecording
  /\ detected
  /\ Len(recFrames) >= 2
  /\ now - lastCap = 3 * renderPeriod

\* C20: state.firstFrame is true only while state.detected is, and only a
\* smoothing step of loop makes it true
C20_FirstFrameImpliesDetected ==
  /\ [](firstFrame => detected)
  /\ [][(~firstFrame /\ firstFrame') => (op' = "loop" /\ detected)]_vars

\* C20 witness: a result without landmarks has reset state.firstFrame after a
\* smoothing step had set it
C20_Witness ==
  /\ op = "onResults"
  /\ ~detected
  /\ ~firstFrame
  /\ acq >= 1
  /\ ~fresh
  /\ ticks > 0

\* C21: a render tick that finds state.detected false neither smooths nor
\* samples: smoothPos, state.firstFrame, rawBuf and recFrames are as before
\* (also while a session is recording), and the rig is hidden after it
C21_IdleTickSkips ==
  [][(op' = "loop" /\ ~detected) =>
       /\ UNCHANGED <<smoothPos, firstFrame, rawBuf, recFrames, lastCap>>
       /\ ~rigVisible']_vars

\* C21 witness: a render tick ran without a hand while a session was
\* recording; the hand had been shown before
C21_Witness ==
  /\ op = "loop"
  /\ ~detected
  /\ isRecording
  /\ acq >= 1
  /\ rawBuf # ZeroRaw
  /\ recFrames = <<>>
  /\ ~rigVisible

\* C22: a render tick that finds state.detected true smooths exactly once
\* (one snap or one interpolation step of every coordinate), before it
\* samples and before it shows the rig: a frame captured in the tick holds
\* the smoothPos that the tick's smoothing step left, to five decimals
C22_SmoothThenSample ==
  [][(op' = "loop" /\ detected) =>
       /\ \A k \in Coords :
            Coord(smoothPos', k) =
              IF firstFrame THEN Lerp(Coord(smoothPos, k), rawBuf[k], smooth)
              ELSE rawBuf[k]
       /\ firstFrame'
       /\ rigVisible'
       /\ Len(recFrames') > Len(recFrames) =>
            /\ Len(recFrames') = Len(recFrames) + 1
            /\ \A k \in Coords :
                 recFrames'[Len(recFrames')].lm[k] = ToFixed5(Coord(smoothPos', k))]_vars

\* C22 witness: the hand was lost and found again in pose 2, and the tick
\* that snapped smoothPos to it captured the first frame of a session
C22_Witness ==
  /\ op = "loop"
  /\ detected
  /\ isRecording
  /\ acq >= 2
  /\ rawBuf = RawOf(2)
  /\ Len(recFrames) = 1
  /\ lastCap = now
  /\ \A k \in Coords : recFrames[1].lm[k] = ToFixed5(rawBuf[k])

\* C23: recFrames grows only by one frame at a time, in a render tick that
\* found both state.isRecording and state.detected true; detector callbacks,
\* the poll and ticks with either flag false append nothing, and the only
\* other change of recFrames is the start of a session, which empties it
C23_FramesOnlyFromLiveTicks ==
  [][recFrames' # recFrames =>
       \/ /\ op' = "loop"
          /\ isRecording
          /\ detected
          /\ Len(recFrames') = Len(recFrames) + 1
          /\ SubSeq(recFrames', 1, Len(recFrames)) = recFrames
       \/ /\ op' = "recbtn"
          /\ ~isRecording
          /\ recFrames' = <<>>]_vars

\* C23 witness: a render tick of a session with the hand detected has
\* appended the session's third frame
C23_Witness ==
  /\ op = "loop"
  /\ isRecording
  /\ detected
  /\ Len(recFrames) = 3
  /\ lastCap = now
  /\ recFrames[3].t = ToFixed4(now - recStart)

\* C24: a detection timer that fires while the image source is not ready (or
\* the loop is not running) starts no send, arms exactly one timer, due
\* 1000 / opts.mpFPS ms later, in place of the one that fired, and changes
\* neither rawBuf, state.detected, state.firstFrame nor the recorder
C24_SkipReschedules ==
  [][(op' = "runInference" /\ (~videoReady \/ ~running)) =>
       /\ inflight' = inflight
       /\ nextSendId' = nextSendId
       /\ \E t \in timers :
            /\ t.due <= now
            /\ timers' = (timers \ {t}) \cup
                 {[id |-> nextTimerId, due |-> now + Period(mpFPS)]}
       /\ Cardinality(timers') = Cardinality(timers)
       /\ timeoutH' = nextTimerId
       /\ UNCHANGED <<rawBuf, detected, firstFrame, recVars>>]_vars

\* C24 witness: the timer fired with the image source not ready, and the
\* only thing pending is the timer of the next cycle
C24_Witness ==
  /\ op = "runInference"
  /\ ~videoReady
  /\ running
  /\ Outstanding = {}
  /\ timers = {[id |-> timeoutH, due |-> now + Period(mpFPS)]}

\* C25: one writer for each shared field.  rawBuf and state.detected change
\* only in the detector callback; state.firstFrame goes to false only there
\* and to true only in the smoothing step of a render tick; smoothPos changes
\* only in that smoothing step; the recorder's handlers, the poll, the
\* settings and a render tick without a hand change none of the four
C25_SingleWriter ==
  [][/\ (rawBuf' # rawBuf \/ detected' # detected) => op' = "onResults"
     /\ (firstFrame /\ ~firstFrame') => op' = "onResults"
     /\ (~firstFrame /\ firstFrame') => (op' = "loop" /\ detected)
     /\ smoothPos' # smoothPos => (op' = "loop" /\ detected)
     /\ (op' \notin {"onResults", "loop"} \/ (op' = "loop" /\ ~detected)) =>
          UNCHANGED <<rawBuf, detected, firstFrame, smoothPos>>
     /\ op' = "loop" => UNCHANGED <<rawBuf, detected>>
     /\ op' = "onResults" => smoothPos' = smoothPos]_vars

\* C25 witness: a session was started by a click after the callback had
\* written rawBuf and a smoothing step had written smoothPos
C25_Witness ==
  /\ op = "recbtn"
  /\ isRecording
  /\ detected
  /\ firstFrame
  /\ rawBuf = RawOf(1)
  /\ \A i \in 0..(NJ - 1) : smoothPos[i] = RawPoint(i)

\* rawBuf as one result wrote it, all 21 points (or as allocated)
WholeRaw(rb) == rb = ZeroRaw \/ \E p \in Poses : rb = RawOf(p)

\* C26: the callback's writes and the smoothing step's reads are not
\* interleaved with anything.  Between callbacks rawBuf is the 21 points of
\* one result, never points of two; state.detected is true only with the
\* points of a result in rawBuf; and a snap copies the points of one result
C26_NoTornWrites ==
  /\ [](WholeRaw(rawBuf) /\ (detected => rawBuf # ZeroRaw))
  /\ [][(op' = "loop" /\ detected /\ ~firstFrame) =>
          \E p \in Poses : \A i \in 0..(NJ - 1) :
             smoothPos'[i] = [x |-> RawOf(p)[3 * i], y |-> RawOf(p)[3 * i + 1],
                              z |-> RawOf(p)[3 * i + 2]]]_vars

\* C26 witness: the callback has replaced the points of pose 1, which the
\* render loop had snapped to, by those of pose 2
C26_Witness ==
  /\ op = "onResults"
  /\ detected
  /\ firstFrame
  /\ rawBuf = RawOf(2)
  /\ \A k \in Coords : Coord(smoothPos, k) = RawOf(1)[k]

\* C27: with the image source ready and the rate left alone, the next send
\* starts max(1000 / opts.mpFPS ms, latency) after the start of the send
\* before it, latency being the time that send took to settle.  A send
\* starts when its timer is due, and the timer is armed when the send before
\* it settles
C27_PeriodIsMax ==
  [][/\ (op' = "runInference" /\ inflight' # inflight) =>
          \E t \in timers \ timers' : t.due = now
     /\ (op' \in {"sendResolved", "sendRejected"}) =>
          \A c \in inflight \ inflight' : \A t \in timers' \ timers :
            LET latency == now - c.sentAt
                interval == Period(mpFPS)
            IN  t.due - c.sentAt = IF latency > interval THEN latency ELSE interval]_vars

\* the number of sessions started so far: every handle setTimeout and
\* setInterval gave out went to a detection timer (pending, or fired to
\* start a send) or to the poll of a session
SessionsStarted == (nextTimerId - 1) - (nextSendId - 1) - Cardinality(timers)

\* C28: a start from idle begins a fresh session.  Right after it recFrames
\* is empty and _recStart is the instant of the start; a frame appended
\* carries the time elapsed since that start; so every timestamp is
\* non-negative and at most the time elapsed since the latest start, which no
\* frame of an earlier session need be
C28_FreshSession ==
  /\ [](\A k \in 1..Len(recFrames) :
          /\ recFrames[k].t >= 0
          /\ recFrames[k].t <= ToFixed4(now - recStart))
  /\ [][/\ (op' = "recbtn" /\ ~isRecording) =>
             (isRecording' /\ recFrames' = <<>> /\ recStart' = now)
        /\ Len(recFrames') > Len(recFrames) =>
             recFrames'[Len(recFrames')].t = ToFixed4(now - recStart)]_vars

\* C28 witness: the second session has captured its first frame, later than
\* it started
C28_Witness ==
  /\ SessionsStarted = 2
  /\ op = "loop"
  /\ isRecording
  /\ Len(recFrames) = 1
  /\ now > recStart
  /\ recFrames[1].t = ToFixed4(now - recStart)

\* C29: a session with _recDur = 0 is not stopped for the time elapsed,
\* however long it runs: the poll leaves state.isRecording true and changes
\* nothing of the session but its own timer, and the session ends only in a
\* click on the record button or in a detector callback without landmarks
C29_UnlimitedNeverTimesOut ==
  [][/\ (op' = "tickUI" /\ isRecording /\ recDur = 0) =>
          /\ isRecording'
          /\ UNCHANGED <<recFrames, recStart, recDur, recTimer, lastCap, rst, stoppedBy>>
     /\ (isRecording /\ ~isRecording' /\ recDur = 0) =>
          (op' \in {"recbtn", "onResults"} /\ stoppedBy' \in {"click", "signal"})]_vars

\* C29 witness: the poll ran on an unlimited session that had been recording
\* for longer than the default limit, and the session goes on
C29_Witness ==
  /\ op = "tickUI"
  /\ recDur = 0
  /\ isRecording
  /\ stoppedBy = "none"
  /\ now - recStart = DefaultDur * UnitsPerSec + PollInterval
  /\ Len(recFrames) > DefaultDur * MAX_CAPTURE_FPS

\* C30: rawBuf always has 21 * 3 = 63 slots and smoothPos 21 points of three
\* coordinates, whatever has run, and the lm array of every frame recorded
\* has 63 entries
C30_FixedSizes ==
  /\ NJ * 3 = 63
  /\ DOMAIN rawBuf = 0..62
  /\ DOMAIN smoothPos = 0..20
  /\ \A i \in DOMAIN smoothPos : DOMAIN smoothPos[i] = {"x", "y", "z"}
  /\ \A k \in 1..Len(recFrames) : DOMAIN recFrames[k].lm = 0..62

\* C30 witness: two frames were recorded of a hand in pose 2
C30_Witness ==
  /\ rawBuf = RawOf(2)
  /\ firstFrame
  /\ Len(recFrames) = 2
  /\ Cardinality(DOMAIN recFrames[2].lm) = 63
  /\ Cardinality(DOMAIN rawBuf) = 63
  /\ Cardinality(DOMAIN smoothPos) = 21

\* C31: once startMPLoop has run, the pending detection timers and the
\* sends in flight number exactly one, whatever the order of timer firings,
\* completions and setMPRate calls: one chain, which neither multiplies nor
\* ends
C31_SingleChain ==
  running => Cardinality(timers) + Cardinality(Outstanding) = 1

\* C32: a detector callback without landmarks stops a session that is
\* recording also when state.detected was false already.  A session that
\* records while state.detected is false has no frame and no export on
\* offer, so a session started without a hand is stopped by the next callback
\* without landmarks with recFrames empty and the export button hidden
C32_NoEntityStopsHandlessSession ==
  /\ []((isRecording /\ ~detected) => (recFrames = <<>> /\ ~expVisible))
  /\ [][(op' = "onResults" /\ ~detected /\ ~detected' /\ isRecording) =>
          /\ ~isRecording'
          /\ stoppedBy' = "signal"
          /\ rst' = "DONE"
          /\ recFrames' = <<>>
          /\ ~expVisible']_vars

\* C32 witness: a session started before any hand was seen has been stopped
\* by a callback without landmarks, after render ticks had run during it
C32_Witness ==
  /\ op = "onResults"
  /\ stoppedBy = "signal"
  /\ acq = 0
  /\ ~detected
  /\ ~isRecording
  /\ recFrames = <<>>
  /\ ~expVisible
  /\ now > recStart

\* C33: recording does not resume by itself.  state.isRecording goes from
\* false to true only in the click that calls startRec; a detector callback
\* (also one that finds the hand again), a render tick, a poll or a settled
\* send leaves a stopped session stopped
C33_NoAutoResume ==
  [][/\ (~isRecording /\ isRecording') => op' = "recbtn"
     /\ (~isRecording /\ op' \in {"onResults", "loop", "tickUI", "runInference",
                                  "sendResolved", "sendRejected", "time", "durbtn"}) =>
          (~isRecording' /\ rst' = rst /\ stoppedBy' = stoppedBy)]_vars

\* C33 witness: a loss of the hand stopped the session, the hand was found
\* again and the render loop has snapped to it; nothing is recording
C33_Witness ==
  /\ stoppedBy = "signal"
  /\ rst = "DONE"
  /\ detected
  /\ firstFrame
  /\ op = "loop"
  /\ ~isRecording

\* C34: the export button is shown only while no session is recording and
\* recFrames is not empty.  The start of a session hides it, a stop shows it
\* if and only if a frame was captured, and openModal and downloadZip with
\* recFrames empty open no dialog and start no archive
C34_ExportOnlyWithFrames ==
  /\ [](expVisible => (~isRecording /\ Len(recFrames) > 0))
  /\ [][/\ (~isRecording /\ isRecording') => ~expVisible'
        /\ (isRecording /\ ~isRecording') => expVisible' = (Len(recFrames) > 0)
        /\ (op' \in {"openModal", "downloadZip"} /\ recFrames = <<>>) =>
             UNCHANGED <<modalVisible, zips, recVars>>]_vars

\* C34 witness: a session without frames was stopped, so that nothing is on
\* offer, and the download handler has run without starting an archive or
\* opening the dialog
C34_Witness ==
  /\ op = "downloadZip"
  /\ rst = "DONE"
  /\ recFrames = <<>>
  /\ ~expVisible
  /\ ~modalVisible
  /\ zips.pending = 0
  /\ zips.done = 0

\* C35: the poll's interval timer runs exactly while a session is recording:
\* never more than one, the one in _recTimer while state.isRecording is true,
\* and none once the session is stopped, whichever way it was stopped
C35_PollTimerIffRecording ==
  /\ Cardinality(intervals) <= 1
  /\ isRecording => PollIds = {recTimer}
  /\ ~isRecording => intervals = {}

\* C35 witness: the poll of a second session has fired, the one timer there is
C35_Witness ==
  /\ SessionsStarted = 2
  /\ op = "tickUI"
  /\ isRecording
  /\ Cardinality(intervals) = 1
  /\ \A iv \in intervals : iv.due = now + PollInterval

\* C36: _recDur does not change while a session is recording.  A click on a
\* duration button during the session changes nothing of the recorder, no
\* other step of a session changes _recDur either, and so the poll that stops
\* a session does so at the limit the session started with
C36_LimitFixedWhileRecording ==
  [][/\ isRecording => recDur' = recDur
     /\ (op' = "durbtn" /\ isRecording) => UNCHANGED recVars
     /\ (op' = "tickUI" /\ isRecording /\ ~isRecording') =>
          (recDur > 0 /\ now - recStart >= recDur * UnitsPerSec)]_vars

\* C36 witness: a duration button was clicked during a session that had
\* captured frames, and the session still has the default limit
C36_Witness ==
  /\ op = "durbtn"
  /\ isRecording
  /\ recDur = DefaultDur
  /\ now > recStart
  /\ Len(recFrames) > 0

\* C37: setMPRate called before startMPLoop, as initSettings does, only
\* stores the rate: no timer is armed and no send started, and nothing is
\* pending until startMPLoop, which arms the one timer of the loop, due
\* 1000 / opts.mpFPS ms later at the rate stored
C37_RateBeforeStart ==
  /\ [](~running => (timers = {} /\ Outstanding = {}))
  /\ [][/\ \A fps \in FpsChoices :
             (op' = "initSettings" /\ setMPRate(fps)) =>
                /\ mpFPS' = fps
                /\ timers' = {}
                /\ UNCHANGED <<running, inflight, nextSendId, nextTimerId, timeoutH>>
        /\ op' = "startMPLoop" =>
             /\ mpFPS' = mpFPS
             /\ running'
             /\ Outstanding' = {}
             /\ timers' = {[id |-> nextTimerId, due |-> now + Period(mpFPS)]}]_vars

\* C37 witness: the slider stood at 10 fps when initSettings read it, and
\* startMPLoop has armed the loop's one timer 100 ms ahead
C37_Witness ==
  /\ op = "startMPLoop"
  /\ running
  /\ mpFPS = 10
  /\ mpFPS # DefaultFPS
  /\ Outstanding = {}
  /\ timers = {[id |-> timeoutH, due |-> now + Ms(100)]}


====
